---- MODULE Spec2Model ----
(***************************************************************************)
(* Hierarchical segmentation: region adjacency graph, PLEF algebra,        *)
(* binary partition tree and hierarchy cut.                                *)
(*                                                                         *)
(* f64 values are modelled as exact rationals <<n, d>> in lowest terms     *)
(* (d > 0), extended with +inf = <<1,0>>, -inf = <<-1,0>> and              *)
(* NaN = <<0,0>>, the values an IEEE division by zero produces.  Rounding  *)
(* is not modelled.  Indices are 0-based as in the source.                 *)
(***************************************************************************)
EXTENDS Integers, Sequences, FiniteSets, TLC

\* ---------------------------------------------------------------- bounds
MaxPixels == 4
MaxLabel == 3
MaxValue == 1
NumChannels == 1
MaxPlefPieces == 3
MaxX == 2
MaxSlope == 2
MaxY == 1
MaxTrunc == 3
MaxSeedDim == 6
MaxSeedStep == 3
MaxSeedCount == 6

\* ------------------------------------------------------- f64 as rationals
Abs(n) == IF n < 0 THEN -n ELSE n

Sign(n) == IF n < 0 THEN -1 ELSE IF n > 0 THEN 1 ELSE 0

RECURSIVE GCD(_, _)
GCD(a, b) == IF b = 0 THEN a ELSE GCD(b, a % b)

Norm(n, d) ==
    IF d = 0 THEN <<Sign(n), 0>>
    ELSE LET g == GCD(Abs(n), Abs(d))
             s == IF d < 0 THEN -1 ELSE 1
         IN  <<(s * n) \div g, (s * d) \div g>>

R(n) == <<n, 1>>
Zero == <<0, 1>>
Infinity == <<1, 0>>
NaN == <<0, 0>>

IsNaN(a) == a = NaN
IsFinite(a) == a[2] # 0

Neg(a) == <<-a[1], a[2]>>

Add(a, b) ==
    IF a[2] = 0 /\ b[2] = 0
    THEN (IF a = b THEN a ELSE NaN)
    ELSE Norm(a[1] * b[2] + b[1] * a[2], a[2] * b[2])

Sub(a, b) == Add(a, Neg(b))

Mul(a, b) == Norm(a[1] * b[1], a[2] * b[2])

Div(a, b) ==
    IF b[2] = 0
    THEN (IF a[2] = 0 THEN NaN ELSE IF b = NaN THEN NaN ELSE Zero)
    ELSE IF a[2] = 0 THEN Norm(a[1] * Sign(b[1]), 0)
    ELSE Norm(a[1] * b[2], a[2] * b[1])

\* comparisons are false as soon as one side is NaN, as for f64
Lt(a, b) ==
    /\ ~IsNaN(a)
    /\ ~IsNaN(b)
    /\ IF a[2] = 0 \/ b[2] = 0
       THEN (IF a[2] = 0 /\ b[2] = 0 THEN a[1] < b[1]
             ELSE IF a[2] = 0 THEN a[1] < 0
             ELSE b[1] > 0)
       ELSE a[1] * b[2] < b[1] * a[2]

Eq(a, b) == ~IsNaN(a) /\ ~IsNaN(b) /\ a = b
Le(a, b) == Lt(a, b) \/ Eq(a, b)
Gt(a, b) == Lt(b, a)
Ge(a, b) == Le(b, a)

\* ------------------------------------------------------------------ PLEF
\* PlefPiece::new
PlefPiece(x, y, s) == [start_x |-> x, start_y |-> y, slope |-> s]

\* PlefPiece::eval
Eval(p, x) == Add(p.start_y, Mul(p.slope, Sub(x, p.start_x)))

\* Plef::init
PlefInit == <<>>

\* impl From<PlefPiece<f64>> for Plef<f64>
PlefFrom(piece) == <<piece>>

\* Option<u32>
None == <<>>
Some(n) == <<n>>

\* max_pieces.unwrap_or(10)
DefaultMaxPieces == 10

PopBack(s) == SubSeq(s, 1, Len(s) - 1)

\* SumLoop adding the start_y of the other piece instead of evaluating it
RECURSIVE SumLoopNoEval(_, _, _, _, _, _, _)
SumLoopNoEval(f, g, i, j, count, max_p, res) ==
    IF i >= 1 /\ j >= 1 /\ count < max_p
    THEN LET piece_i == f[i]
             piece_j == g[j]
             new_slope == Add(piece_i.slope, piece_j.slope)
         IN  IF Ge(piece_i.start_x, piece_j.start_x)
             THEN LET new_start_x == piece_i.start_x
                      new_start_y == Add(piece_i.start_y, piece_j.start_y)
                      j2 == IF Eq(piece_i.start_x, piece_j.start_x) THEN j - 1 ELSE j
                  IN  SumLoopNoEval(f, g, i - 1, j2, count + 1, max_p,
                                    <<PlefPiece(new_start_x, new_start_y, new_slope)>> \o res)
             ELSE LET new_start_x == piece_j.start_x
                      new_start_y == Add(piece_j.start_y, piece_i.start_y)
                  IN  SumLoopNoEval(f, g, i, j - 1, count + 1, max_p,
                                    <<PlefPiece(new_start_x, new_start_y, new_slope)>> \o res)
    ELSE res

\* SumLoop taking the first branch on > instead of >=
RECURSIVE SumLoopStrict(_, _, _, _, _, _, _)
SumLoopStrict(f, g, i, j, count, max_p, res) ==
    IF i >= 1 /\ j >= 1 /\ count < max_p
    THEN LET piece_i == f[i]
             piece_j == g[j]
             new_slope == Add(piece_i.slope, piece_j.slope)
         IN  IF Gt(piece_i.start_x, piece_j.start_x)
             THEN LET new_start_x == piece_i.start_x
                      new_start_y == Add(piece_i.start_y, Eval(piece_j, new_start_x))
                  IN  SumLoopStrict(f, g, i - 1, j, count + 1, max_p,
                                    <<PlefPiece(new_start_x, new_start_y, new_slope)>> \o res)
             ELSE LET new_start_x == piece_j.start_x
                      new_start_y == Add(piece_j.start_y, Eval(piece_i, new_start_x))
                  IN  SumLoopStrict(f, g, i, j - 1, count + 1, max_p,
                                    <<PlefPiece(new_start_x, new_start_y, new_slope)>> \o res)
    ELSE res

\* the while loop of Plef::sum: i and j count the pieces not yet consumed
\* by the two reversed iterators, so f[i] and g[j] are the peeked pieces
RECURSIVE SumLoop(_, _, _, _, _, _, _)
SumLoop(f, g, i, j, count, max_p, res) ==
    IF i >= 1 /\ j >= 1 /\ count < max_p
    THEN LET piece_i == f[i]
             piece_j == g[j]
             new_slope == Add(piece_i.slope, piece_j.slope)
         IN  IF Ge(piece_i.start_x, piece_j.start_x)
             THEN LET new_start_x == piece_i.start_x
                      new_start_y == Add(piece_i.start_y, Eval(piece_j, new_start_x))
                      j2 == IF Eq(piece_i.start_x, piece_j.start_x) THEN j - 1 ELSE j
                  IN  SumLoop(f, g, i - 1, j2, count + 1, max_p,
                              <<PlefPiece(new_start_x, new_start_y, new_slope)>> \o res)
             ELSE LET new_start_x == piece_j.start_x
                      new_start_y == Add(piece_j.start_y, Eval(piece_i, new_start_x))
                  IN  SumLoop(f, g, i, j - 1, count + 1, max_p,
                              <<PlefPiece(new_start_x, new_start_y, new_slope)>> \o res)
    ELSE res

\* the re-anchoring of the front piece at the end of Plef::sum
ExtendFront(res) ==
    IF Len(res) >= 1 /\ Gt(res[1].start_x, Zero)
    THEN [res EXCEPT ![1] = PlefPiece(Zero,
                                      Sub(res[1].start_y, Mul(res[1].slope, res[1].start_x)),
                                      res[1].slope)]
    ELSE res

\* Plef::sum
PlefSum(self, other, max_pieces) ==
    IF Len(other) = 0 THEN self
    ELSE IF Len(self) = 0 THEN other
    ELSE LET max_p == IF max_pieces = None THEN DefaultMaxPieces ELSE max_pieces[1]
         IN  ExtendFront(SumLoop(self, other, Len(self), Len(other), 0, max_p, <<>>))

\* Intersect without the start_x * slope terms
IntersectNoOffset(other, piece) ==
    Div(Neg(Sub(other.start_y, piece.start_y)), Sub(other.slope, piece.slope))

\* abscissa at which the line `other` meets the line of `piece`
Intersect(other, piece) ==
    Div(Sub(Sub(Mul(other.start_x, other.slope), Mul(piece.start_x, piece.slope)),
            Sub(other.start_y, piece.start_y)),
        Sub(other.slope, piece.slope))

\* InfLoop breaking on xi >= start_x instead of xi > start_x
RECURSIVE InfLoopGe(_, _, _, _)
InfLoopGe(pieces, k, other, xi) ==
    IF k < 1 THEN [pieces |-> pieces, xi |-> xi]
    ELSE LET xi2 == Intersect(other, pieces[k])
         IN  IF Ge(xi2, pieces[k].start_x)
             THEN [pieces |-> pieces, xi |-> xi2]
             ELSE InfLoopGe(PopBack(pieces), k - 1, other, xi2)

\* the for loop of Plef::infimum; k is the 1-based position of the back piece
RECURSIVE InfLoop(_, _, _, _)
InfLoop(pieces, k, other, xi) ==
    IF k < 1 THEN [pieces |-> pieces, xi |-> xi]
    ELSE LET xi2 == Intersect(other, pieces[k])
         IN  IF Gt(xi2, pieces[k].start_x)
             THEN [pieces |-> pieces, xi |-> xi2]
             ELSE InfLoop(PopBack(pieces), k - 1, other, xi2)

\* PlefInfimum returning 0 when `other` touches the start of the last piece
PlefInfimumRetZero(self, other) ==
    LET last_piece == self[Len(self)]
        y == Eval(other, last_piece.start_x)
        Walk(pieces) ==
            LET r == InfLoop(pieces, Len(pieces), other, Zero)
            IN  [pieces |-> Append(r.pieces, PlefPiece(r.xi, Eval(other, r.xi), other.slope)),
                 ret |-> r.xi]
    IN  IF Eq(other.slope, last_piece.slope)
        THEN IF Gt(y, last_piece.start_y) THEN [pieces |-> self, ret |-> Infinity]
             ELSE IF Eq(y, last_piece.start_y) THEN [pieces |-> self, ret |-> Zero]
             ELSE Walk(PopBack(self))
        ELSE Walk(self)

\* Plef::infimum: the mutated piece list and the returned abscissa
PlefInfimum(self, other) ==
    LET last_piece == self[Len(self)]
        y == Eval(other, last_piece.start_x)
        Walk(pieces) ==
            LET r == InfLoop(pieces, Len(pieces), other, Zero)
            IN  [pieces |-> Append(r.pieces, PlefPiece(r.xi, Eval(other, r.xi), other.slope)),
                 ret |-> r.xi]
    IN  IF Eq(other.slope, last_piece.slope)
        THEN IF Gt(y, last_piece.start_y) THEN [pieces |-> self, ret |-> Infinity]
             ELSE IF Eq(y, last_piece.start_y) THEN [pieces |-> self, ret |-> last_piece.start_x]
             ELSE Walk(PopBack(self))
        ELSE Walk(self)

\* ------------------------------------------------------------ region graph
VARIABLES height, width, img, labels,
          nodes, edges,
          heap, parents, levels, merge_operations,
          hierarchy, cut_level, cut_labels,
          pc, panic,
          plef_f, plef_g, plef_p, plef_max, plef_f0, plef_sum, plef_sum_rev,
          plef_ret, plef_ret_rev, plef_f1, plef_ret2, plef_pc,
          seed_width, seed_height, seed_s, seed_k, seed_result, seed_pc

\* the state of a unit run of init_seeds on its own
seedVars == <<seed_width, seed_height, seed_s, seed_k, seed_result, seed_pc>>

\* the state of a unit run of the PLEF algebra on its own
plefVars == <<plef_f, plef_g, plef_p, plef_max, plef_f0, plef_sum, plef_sum_rev,
              plef_ret, plef_ret_rev, plef_f1, plef_ret2, plef_pc>>

Channels == 1..NumChannels

\* SuperpixelNode::new
SuperpixelNode(area, perimeter, values, values_sq, optimal_energy) ==
    [area |-> area, perimeter |-> perimeter, values |-> values,
     values_sq |-> values_sq, optimal_energy |-> optimal_energy]

\* SuperpixelNode::init
SuperpixelNodeInit ==
    SuperpixelNode(0, 0, [c \in Channels |-> 0], [c \in Channels |-> 0], PlefInit)

\* SuperpixelEdge::new, with the endpoints petgraph stores beside the payload
SuperpixelEdge(source, target, weight, length) ==
    [source |-> source, target |-> target, weight |-> weight,
     length |-> length, active |-> TRUE]

\* a Vec as a function on 0..n-1
VecLen(v) == Cardinality(DOMAIN v)
VecPush(v, x) == [i \in 0..VecLen(v) |-> IF i < VecLen(v) THEN v[i] ELSE x]
EmptyVec == [i \in {} |-> 0]

RECURSIVE DataFidelityFold(_, _, _, _)
DataFidelityFold(values, values_sq, area, c) ==
    IF c = 0 THEN Zero
    ELSE Sub(Add(DataFidelityFold(values, values_sq, area, c - 1), R(values_sq[c])),
             Div(R(values[c] * values[c]), R(area)))

\* data_fidelity
DataFidelity(values, values_sq, area) ==
    DataFidelityFold(values, values_sq, area, NumChannels)

\* u32 subtraction perimeter_a + perimeter_b - 2 * length goes below zero
PerimeterUnderflow(source, target, edge_length) ==
    source.perimeter + target.perimeter < 2 * edge_length

\* ApparitionScale with the border between the two regions left in the slope
ApparitionScaleWithBorder(source, target, edge_length) ==
    LET e == PlefSum(source.optimal_energy, target.optimal_energy, None)
        values == [c \in Channels |-> source.values[c] + target.values[c]]
        values_sq == [c \in Channels |-> source.values_sq[c] + target.values_sq[c]]
        a == source.area + target.area
        data_fidelity == DataFidelity(values, values_sq, a)
        merge_perimeter == source.perimeter + target.perimeter
    IN  PlefInfimum(e, PlefPiece(Zero, data_fidelity, R(merge_perimeter))).ret

\* apparition_scale
ApparitionScale(source, target, edge_length) ==
    LET e == PlefSum(source.optimal_energy, target.optimal_energy, None)
        values == [c \in Channels |-> source.values[c] + target.values[c]]
        values_sq == [c \in Channels |-> source.values_sq[c] + target.values_sq[c]]
        a == source.area + target.area
        data_fidelity == DataFidelity(values, values_sq, a)
        merge_perimeter == source.perimeter + target.perimeter - 2 * edge_length
    IN  PlefInfimum(e, PlefPiece(Zero, data_fidelity, R(merge_perimeter))).ret

\* graph.contains_edge / graph.find_edge on an undirected graph
Connects(e, u, v) ==
    \/ e.source = u /\ e.target = v
    \/ e.source = v /\ e.target = u

ContainsEdge(es, u, v) == \E k \in DOMAIN es : Connects(es[k], u, v)

FindEdge(es, u, v) == CHOOSE k \in DOMAIN es : Connects(es[k], u, v)

SetMax(S) == CHOOSE m \in S : \A x \in S : x <= m

\* the border update of one (pixel, neighbour) pair in graph_from_labels
Border(g, i, j) ==
    LET ns == [g.nodes EXCEPT ![i].perimeter = @ + 1, ![j].perimeter = @ + 1]
        es0 == IF ContainsEdge(g.edges, i, j) THEN g.edges
               ELSE VecPush(g.edges, SuperpixelEdge(i, j, Zero, 0))
        k == FindEdge(es0, i, j)
    IN  [nodes |-> ns, edges |-> [es0 EXCEPT ![k].length = @ + 1]]

\* one iteration of labels.indexed_iter() in graph_from_labels
VisitPixel(g, h, w, image, labs, p) ==
    LET y == p \div w
        x == p % w
        i == labs[p]
        g1 == [g EXCEPT !.nodes[i].area = @ + 1,
                        !.nodes[i].values = [c \in Channels |-> @[c] + image[p][c]],
                        !.nodes[i].values_sq = [c \in Channels |-> @[c] + image[p][c] * image[p][c]]]
        g2 == IF x + 1 < w /\ labs[p + 1] # i THEN Border(g1, i, labs[p + 1]) ELSE g1
        g3 == IF y + 1 < h /\ labs[p + w] # i THEN Border(g2, i, labs[p + w]) ELSE g2
    IN  g3

RECURSIVE PixelPass(_, _, _, _, _, _)
PixelPass(g, h, w, image, labs, n) ==
    IF n = 0 THEN g
    ELSE VisitPixel(PixelPass(g, h, w, image, labs, n - 1), h, w, image, labs, n - 1)

\* FrameRows crediting the top row only
RECURSIVE FrameRowsTopOnly(_, _, _, _, _)
FrameRowsTopOnly(ns, h, w, labs, n) ==
    IF n = 0 THEN ns
    ELSE LET m == FrameRowsTopOnly(ns, h, w, labs, n - 1)
             x == n - 1
         IN  [m EXCEPT ![labs[x]].perimeter = @ + 1]

\* the two loops that credit the image frame to the perimeters
RECURSIVE FrameRows(_, _, _, _, _)
FrameRows(ns, h, w, labs, n) ==
    IF n = 0 THEN ns
    ELSE LET m == FrameRows(ns, h, w, labs, n - 1)
             x == n - 1
             m1 == [m EXCEPT ![labs[x]].perimeter = @ + 1]
         IN  [m1 EXCEPT ![labs[(h - 1) * w + x]].perimeter = @ + 1]

RECURSIVE FrameCols(_, _, _, _, _)
FrameCols(ns, h, w, labs, n) ==
    IF n = 0 THEN ns
    ELSE LET m == FrameCols(ns, h, w, labs, n - 1)
             y == n - 1
             m1 == [m EXCEPT ![labs[y * w]].perimeter = @ + 1]
         IN  [m1 EXCEPT ![labs[y * w + w - 1]].perimeter = @ + 1]

\* graph_from_labels
GraphFromLabels(h, w, image, labs) ==
    LET num_vertex == SetMax({labs[p] : p \in DOMAIN labs}) + 1
        g0 == [nodes |-> [i \in 0..(num_vertex - 1) |-> SuperpixelNodeInit],
               edges |-> EmptyVec]
        g1 == PixelPass(g0, h, w, image, labs, h * w)
        ns2 == FrameCols(FrameRows(g1.nodes, h, w, labs, w), h, w, labs, h)
        ns3 == [i \in DOMAIN ns2 |->
                  [ns2[i] EXCEPT !.optimal_energy =
                      PlefFrom(PlefPiece(Zero,
                                         DataFidelity(ns2[i].values, ns2[i].values_sq, ns2[i].area),
                                         R(ns2[i].perimeter)))]]
        es == [k \in DOMAIN g1.edges |->
                  [g1.edges[k] EXCEPT !.weight =
                      ApparitionScale(ns3[g1.edges[k].source], ns3[g1.edges[k].target],
                                      g1.edges[k].length)]]
    IN  [nodes |-> ns3, edges |-> es]

\* ------------------------------------------------- binary partition tree
\* EdgeWrapper
EdgeWrapper(index, weight) == [index |-> index, weight |-> weight]

\* BinaryHeap::pop under EdgeWrapper::cmp: an entry no other entry is
\* strictly lighter than; equal weights pop in an unspecified order
IsTop(top) == top \in heap /\ \A o \in heap : ~Lt(o.weight, top.weight)

\* EdgeWrapper::cmp unwraps partial_cmp, which is None on a NaN weight
CmpPanics(h) == Cardinality(h) >= 2 /\ \E o \in h : IsNaN(o.weight)

OtherEnd(e, node) == IF e.source = node THEN e.target ELSE e.source

\* OldEdges scanning the neighbours of a only
OldEdgesOfA(es, a, b, n) ==
    {k \in DOMAIN es : es[k].active /\ Connects(es[k], a, n)}

\* the edges the neighbour scan of (a, b) files under neighbour n
OldEdges(es, a, b, n) ==
    {k \in DOMAIN es : es[k].active /\ (Connects(es[k], a, n) \/ Connects(es[k], b, n))}

\* the keys of the `neighors` map
NeighborSet(es, a, b) ==
    {n \in {OtherEnd(es[k], a) : k \in {j \in DOMAIN es : es[j].source = a \/ es[j].target = a}}
           \cup {OtherEnd(es[k], b) : k \in {j \in DOMAIN es : es[j].source = b \/ es[j].target = b}} :
        n # a /\ n # b /\ OldEdges(es, a, b, n) # {}}

\* SumLength keeping the length of one of the old edges only
SumLengthOfOne(es, ks) ==
    IF ks = {} THEN 0 ELSE es[CHOOSE j \in ks : TRUE].length

\* `length += edge.length` over the old edges of one neighbour
RECURSIVE SumLength(_, _)
SumLength(es, ks) ==
    IF ks = {} THEN 0
    ELSE LET k == CHOOSE j \in ks : TRUE
         IN  es[k].length + SumLength(es, ks \ {k})

\* NewNode subtracting the fusion edge's length once instead of twice
NewNodeHalfBorder(node_a, node_b, fusion_edge) ==
    LET area == node_a.area + node_b.area
        perimeter == node_a.perimeter + node_b.perimeter - fusion_edge.length
        values == [c \in Channels |-> node_a.values[c] + node_b.values[c]]
        values_sq == [c \in Channels |-> node_a.values_sq[c] + node_b.values_sq[c]]
        data_fidelity == DataFidelity(values, values_sq, area)
        plef == PlefSum(node_a.optimal_energy, node_b.optimal_energy, None)
    IN  SuperpixelNode(area, perimeter, values, values_sq,
                       PlefInfimum(plef, PlefPiece(Zero, data_fidelity, R(perimeter))).pieces)

\* the merged node built from node_a, node_b and the fusion edge
NewNode(node_a, node_b, fusion_edge) ==
    LET area == node_a.area + node_b.area
        perimeter == node_a.perimeter + node_b.perimeter - 2 * fusion_edge.length
        values == [c \in Channels |-> node_a.values[c] + node_b.values[c]]
        values_sq == [c \in Channels |-> node_a.values_sq[c] + node_b.values_sq[c]]
        data_fidelity == DataFidelity(values, values_sq, area)
        plef == PlefSum(node_a.optimal_energy, node_b.optimal_energy, None)
    IN  SuperpixelNode(area, perimeter, values, values_sq,
                       PlefInfimum(plef, PlefPiece(Zero, data_fidelity, R(perimeter))).pieces)

\* Rewire leaving the old edges active
RECURSIVE RewireKeepActive(_, _, _, _, _, _, _)
RewireKeepActive(ns, es, hp, a, b, ord, new_node_id) ==
    IF Len(ord) = 0 THEN [edges |-> es, heap |-> hp]
    ELSE LET neighbor_id == ord[1]
             old_edges == OldEdges(es, a, b, neighbor_id)
             length == SumLength(es, old_edges)
             weight == ApparitionScale(ns[new_node_id], ns[neighbor_id], length)
             new_edge_id == VecLen(es)
             es2 == VecPush(es, SuperpixelEdge(new_node_id, neighbor_id, weight, length))
         IN  RewireKeepActive(ns, es2, hp \cup {EdgeWrapper(new_edge_id, weight)},
                              a, b, Tail(ord), new_node_id)

\* Rewire pushing the heap entry of a new edge with the summed length as weight
RECURSIVE RewirePushLength(_, _, _, _, _, _, _)
RewirePushLength(ns, es, hp, a, b, ord, new_node_id) ==
    IF Len(ord) = 0 THEN [edges |-> es, heap |-> hp]
    ELSE LET neighbor_id == ord[1]
             old_edges == OldEdges(es, a, b, neighbor_id)
             length == SumLength(es, old_edges)
             es1 == [k \in DOMAIN es |->
                       IF k \in old_edges THEN [es[k] EXCEPT !.active = FALSE] ELSE es[k]]
             weight == ApparitionScale(ns[new_node_id], ns[neighbor_id], length)
             new_edge_id == VecLen(es1)
             es2 == VecPush(es1, SuperpixelEdge(new_node_id, neighbor_id, weight, length))
         IN  RewirePushLength(ns, es2, hp \cup {EdgeWrapper(new_edge_id, R(length))},
                              a, b, Tail(ord), new_node_id)

\* the rewiring loop over `neighors`, visited in the order ord
RECURSIVE Rewire(_, _, _, _, _, _, _)
Rewire(ns, es, hp, a, b, ord, new_node_id) ==
    IF Len(ord) = 0 THEN [edges |-> es, heap |-> hp]
    ELSE LET neighbor_id == ord[1]
             old_edges == OldEdges(es, a, b, neighbor_id)
             length == SumLength(es, old_edges)
             es1 == [k \in DOMAIN es |->
                       IF k \in old_edges THEN [es[k] EXCEPT !.active = FALSE] ELSE es[k]]
             weight == ApparitionScale(ns[new_node_id], ns[neighbor_id], length)
             new_edge_id == VecLen(es1)
             es2 == VecPush(es1, SuperpixelEdge(new_node_id, neighbor_id, weight, length))
         IN  Rewire(ns, es2, hp \cup {EdgeWrapper(new_edge_id, weight)},
                    a, b, Tail(ord), new_node_id)

\* the orders in which a HashMap may yield the keys in S
Orders(S) ==
    {ord \in [1..Cardinality(S) -> S] : \A i, j \in 1..Cardinality(S) : i # j => ord[i] # ord[j]}

\* a failed assertion or unwrap aborts the call
Halted == /\ UNCHANGED <<height, width, img, labels, nodes, edges, heap, parents,
                         levels, merge_operations, hierarchy, cut_level, cut_labels>>
          /\ pc' = "panicked"

\* hierarchical_segmentation: the label map goes through graph_from_labels
BuildGraph ==
    /\ pc = "labels"
    /\ \E g \in {GraphFromLabels(height, width, img, labels)} :
           IF \E k \in DOMAIN g.edges :
                 PerimeterUnderflow(g.nodes[g.edges[k].source], g.nodes[g.edges[k].target],
                                    g.edges[k].length)
           THEN panic' = "attempt to subtract with overflow" /\ Halted
           ELSE /\ nodes' = g.nodes
                /\ edges' = g.edges
                /\ pc' = "graph"
                /\ UNCHANGED <<height, width, img, labels, heap, parents, levels,
                               merge_operations, hierarchy, cut_level, cut_labels, panic>>
    /\ UNCHANGED plefVars
    /\ UNCHANGED seedVars

\* RecordParents with the new slot filled with a's index instead of its own
RecordParentsOfA(prnts, a, b, new_node_id) ==
    [VecPush(prnts, a) EXCEPT ![a] = new_node_id, ![b] = new_node_id]

\* lines 132-136 of binary_partition_tree: the new root and its two children
RecordParents(prnts, a, b, new_node_id) ==
    [VecPush(prnts, new_node_id) EXCEPT ![a] = new_node_id, ![b] = new_node_id]

\* binary_partition_tree up to the while loop
TreeStart ==
    /\ pc = "graph"
    /\ LET h == {EdgeWrapper(k, edges[k].weight) : k \in DOMAIN edges}
       IN  IF CmpPanics(h)
           THEN panic' = "partial_cmp unwrap" /\ Halted
           ELSE /\ parents' = [i \in DOMAIN nodes |-> i]
                /\ levels' = [i \in DOMAIN nodes |-> Zero]
                /\ heap' = h
                /\ merge_operations' = 0
                /\ pc' = "loop"
                /\ UNCHANGED <<height, width, img, labels, nodes, edges,
                               hierarchy, cut_level, cut_labels, panic>>
    /\ UNCHANGED plefVars
    /\ UNCHANGED seedVars

\* a loop iteration whose popped edge is no longer active
PopStale ==
    /\ pc = "loop"
    /\ \E top \in heap :
         /\ IsTop(top)
         /\ ~edges[top.index].active
         /\ heap' = heap \ {top}
    /\ UNCHANGED <<height, width, img, labels, nodes, edges, parents, levels,
                   merge_operations, hierarchy, cut_level, cut_labels, pc, panic>>
    /\ UNCHANGED plefVars
    /\ UNCHANGED seedVars

\* a loop iteration that fuses the endpoints of the popped edge
Merge ==
    /\ pc = "loop"
    /\ \E top \in heap :
         /\ IsTop(top)
         /\ edges[top.index].active
         /\ LET fusion_edge_index == top.index
                es1 == [edges EXCEPT ![fusion_edge_index].active = FALSE]
                fusion_edge == es1[fusion_edge_index]
                a == fusion_edge.source
                b == fusion_edge.target
                nbrs == NeighborSet(es1, a, b)
                new_node == NewNode(nodes[a], nodes[b], fusion_edge)
                new_node_id == VecLen(nodes)
                ns1 == VecPush(nodes, new_node)
            IN  IF ~Eq(fusion_edge.weight, top.weight)
                THEN panic' = "Heap consistency assert" /\ Halted
                ELSE IF \E k \in DOMAIN es1 : es1[k].active /\ Connects(es1[k], a, b)
                THEN panic' = "Active edge assert" /\ Halted
                ELSE IF PerimeterUnderflow(nodes[a], nodes[b], fusion_edge.length)
                THEN panic' = "attempt to subtract with overflow" /\ Halted
                ELSE IF VecLen(parents) # new_node_id \/ VecLen(levels) # new_node_id
                THEN panic' = "length assert" /\ Halted
                ELSE IF \E n \in nbrs :
                          PerimeterUnderflow(new_node, nodes[n],
                                             SumLength(es1, OldEdges(es1, a, b, n)))
                THEN panic' = "attempt to subtract with overflow" /\ Halted
                ELSE \E ord \in Orders(nbrs) :
                       LET r == Rewire(ns1, es1, heap \ {top}, a, b, ord, new_node_id)
                       IN  IF CmpPanics(r.heap)
                           THEN panic' = "partial_cmp unwrap" /\ Halted
                           ELSE /\ nodes' = ns1
                                /\ edges' = r.edges
                                /\ heap' = r.heap
                                /\ parents' = RecordParents(parents, a, b, new_node_id)
                                /\ levels' = VecPush(levels, fusion_edge.weight)
                                /\ merge_operations' = merge_operations + 1
                                /\ UNCHANGED <<height, width, img, labels, hierarchy,
                                               cut_level, cut_labels, pc, panic>>
    /\ UNCHANGED plefVars
    /\ UNCHANGED seedVars

\* f64::max
FMax(a, b) == IF IsNaN(a) THEN b ELSE IF IsNaN(b) THEN a ELSE IF Lt(a, b) THEN b ELSE a

\* levels.iter().fold(0.0, |acc, l| acc.max(*l)); the accumulator is bound
\* through a singleton set so that it is computed once per element
RECURSIVE MaxLevelFold(_, _)
MaxLevelFold(lv, n) ==
    IF n = 0 THEN Zero
    ELSE CHOOSE r \in {FMax(acc, lv[n - 1]) : acc \in {MaxLevelFold(lv, n - 1)}} : TRUE

\* the loop ends on an empty heap; build_hierarchy_wasm wraps the tree
BuildHierarchy ==
    /\ pc = "loop"
    /\ heap = {}
    /\ hierarchy' = [labels |-> labels, parents |-> parents, levels |-> levels,
                     max_level |-> MaxLevelFold(levels, VecLen(levels))]
    /\ pc' = "built"
    /\ UNCHANGED <<height, width, img, labels, nodes, edges, heap, parents, levels,
                   merge_operations, cut_level, cut_labels, panic>>
    /\ UNCHANGED plefVars
    /\ UNCHANGED seedVars

\* ------------------------------------------------------------ hierarchy cut
\* HashMap::remove / HashMap::entry(..).or_insert_with(Vec::new)
MapRemove(m, k) == [x \in DOMAIN m \ {k} |-> m[x]]
MapGet(m, k) == IF k \in DOMAIN m THEN m[k] ELSE <<>>
MapPut(m, k, v) == [x \in DOMAIN m \cup {k} |-> IF x = k THEN v ELSE m[x]]

\* CutLoop breaking on l > level instead of l >= level
RECURSIVE CutLoopGt(_, _, _, _, _)
CutLoopGt(prnts, lvls, level, i, label_rewrites) ==
    IF i >= VecLen(lvls) \/ Gt(lvls[i], level) THEN label_rewrites
    ELSE LET parent == prnts[i]
             children == MapGet(label_rewrites, i)
             removed == MapRemove(label_rewrites, i)
             parent_family == MapGet(removed, parent) \o <<i>> \o children
         IN  CutLoopGt(prnts, lvls, level, i + 1, MapPut(removed, parent, parent_family))

\* CutLoop without parent_family.extend(children)
RECURSIVE CutLoopNoExtend(_, _, _, _, _)
CutLoopNoExtend(prnts, lvls, level, i, label_rewrites) ==
    IF i >= VecLen(lvls) \/ Ge(lvls[i], level) THEN label_rewrites
    ELSE LET parent == prnts[i]
             removed == MapRemove(label_rewrites, i)
             parent_family == MapGet(removed, parent) \o <<i>>
         IN  CutLoopNoExtend(prnts, lvls, level, i + 1, MapPut(removed, parent, parent_family))

\* the loop over (i, l) in cut_hierarchy_wasm, from index i on
RECURSIVE CutLoop(_, _, _, _, _)
CutLoop(prnts, lvls, level, i, label_rewrites) ==
    IF i >= VecLen(lvls) \/ Ge(lvls[i], level) THEN label_rewrites
    ELSE LET parent == prnts[i]
             children == MapGet(label_rewrites, i)
             removed == MapRemove(label_rewrites, i)
             parent_family == MapGet(removed, parent) \o <<i>> \o children
         IN  CutLoop(prnts, lvls, level, i + 1, MapPut(removed, parent, parent_family))

InSeq(x, sq) == \E k \in 1..Len(sq) : sq[k] = x

\* label_mappings: every child is listed under exactly one key, so the
\* iteration order of the map does not matter
LabelMappings(prnts, label_rewrites) ==
    [c \in DOMAIN prnts |->
        IF \E q \in DOMAIN label_rewrites : InSeq(c, label_rewrites[q])
        THEN CHOOSE q \in DOMAIN label_rewrites : InSeq(c, label_rewrites[q])
        ELSE c]

\* cut_hierarchy_wasm
CutHierarchyWasm(h, level) ==
    LET label_rewrites == CutLoop(h.parents, h.levels, level, 0, EmptyVec)
        label_mappings == LabelMappings(h.parents, label_rewrites)
    IN  [p \in DOMAIN h.labels |-> label_mappings[h.labels[p]]]

\* the scales a caller cuts at: 0, +inf, every level and half of it
CutLevels(h) ==
    {Zero, Infinity} \cup {h.levels[i] : i \in DOMAIN h.levels}
                     \cup {Div(h.levels[i], R(2)) : i \in DOMAIN h.levels}

CutHierarchy ==
    /\ pc = "built"
    /\ \E level \in CutLevels(hierarchy) :
         /\ cut_level' = level
         /\ cut_labels' = CutHierarchyWasm(hierarchy, level)
    /\ pc' = "cut"
    /\ UNCHANGED <<height, width, img, labels, nodes, edges, heap, parents, levels,
                   merge_operations, hierarchy, panic>>
    /\ UNCHANGED plefVars
    /\ UNCHANGED seedVars

\* ------------------------------------------------------------ specification
vars == <<height, width, img, labels, nodes, edges, heap, parents, levels,
          merge_operations, hierarchy, cut_level, cut_labels, pc, panic,
          plef_f, plef_g, plef_p, plef_max, plef_f0, plef_sum, plef_sum_rev,
          plef_ret, plef_ret_rev, plef_f1, plef_ret2, plef_pc,
          seed_width, seed_height, seed_s, seed_k, seed_result, seed_pc>>

Dims == {d \in (1..MaxPixels) \X (1..MaxPixels) : d[1] * d[2] <= MaxPixels}

\* nothing built yet
TreeBlank ==
    /\ nodes = EmptyVec
    /\ edges = EmptyVec
    /\ heap = {}
    /\ parents = EmptyVec
    /\ levels = EmptyVec
    /\ merge_operations = 0
    /\ hierarchy = [labels |-> EmptyVec, parents |-> EmptyVec, levels |-> EmptyVec,
                    max_level |-> Zero]
    /\ cut_level = Zero
    /\ cut_labels = EmptyVec
    /\ panic = "none"

PlefBlank ==
    /\ plef_g = <<>>
    /\ plef_p = PlefPiece(Zero, Zero, Zero)
    /\ plef_max = None
    /\ plef_f0 = <<>>
    /\ plef_sum = <<>>
    /\ plef_sum_rev = <<>>
    /\ plef_ret = Zero
    /\ plef_ret_rev = Zero
    /\ plef_f1 = <<>>
    /\ plef_ret2 = Zero

SeedBlank ==
    /\ seed_width = 0
    /\ seed_height = 0
    /\ seed_s = 0
    /\ seed_k = 0
    /\ seed_result = [ok |-> TRUE, seeds |-> <<>>]
    /\ seed_pc = "off"

\* every image of at most MaxPixels pixels with every label map on it
SmallInputs ==
    UNION {[height : {d[1]}, width : {d[2]},
            img : [0..(d[1] * d[2] - 1) -> [Channels -> 0..MaxValue]],
            labels : [0..(d[1] * d[2] - 1) -> 0..MaxLabel]] : d \in Dims}

\* a one-row image, one superpixel per pixel, whose merges keep more than
\* max_pieces breakpoints alive, so that Plef::sum truncates
StripRow == <<12, 5, 18, 15, 16, 7, 4, 20, 18, 4, 11, 16>>

StripInput ==
    [height |-> 1, width |-> Len(StripRow),
     img |-> [p \in 0..(Len(StripRow) - 1) |-> [c \in Channels |-> StripRow[p + 1]]],
     labels |-> [p \in 0..(Len(StripRow) - 1) |-> p]]

Init ==
    /\ \E input \in SmallInputs \cup {StripInput} :
         /\ height = input.height
         /\ width = input.width
         /\ img = input.img
         /\ labels = input.labels
    /\ TreeBlank
    /\ pc = "labels"
    /\ PlefBlank
    /\ SeedBlank
    /\ plef_f = <<>>
    /\ plef_pc = "off"

Next ==
    \/ BuildGraph
    \/ TreeStart
    \/ PopStale
    \/ Merge
    \/ BuildHierarchy
    \/ CutHierarchy

Spec == Init /\ [][Next]_vars

\* `while !heap.is_empty()` has an iteration to run
LoopCanStep == pc = "loop" /\ heap # {}

\* an iteration ran: it began with heap.pop(), and whatever a merge pushed
\* afterwards carries new edge indices
LoopIteration == LoopCanStep /\ heap' # heap

\* a running program keeps running: the while loop of binary_partition_tree
\* runs its next iteration as long as it has one (weak fairness of the loop
\* body, its enabling condition written out as LoopCanStep), and the call
\* returns once the heap is empty
SpecLive ==
    /\ Init
    /\ [][Next]_vars
    /\ ([]<>(~LoopCanStep) \/ []<><<LoopIteration>>_vars)
    /\ WF_vars(BuildHierarchy)

\* ------------------------------------------- the PLEF algebra on its own
\* strictly increasing abscissae starting at 0
Abscissae(n) ==
    {xs \in [1..n -> 0..MaxX] : xs[1] = 0 /\ \A i \in 1..(n - 1) : xs[i] < xs[i + 1]}

\* non-increasing slopes
Slopes(n) ==
    {ss \in [1..n -> 0..MaxSlope] : \A i \in 1..(n - 1) : ss[i] >= ss[i + 1]}

\* the continuous PLEF with breakpoints xs, slopes ss and value y0 at 0
RECURSIVE MkPlef(_, _, _, _)
MkPlef(xs, ss, y0, n) ==
    IF n = 1 THEN <<PlefPiece(R(xs[1]), R(y0), R(ss[1]))>>
    ELSE LET f == MkPlef(xs, ss, y0, n - 1)
         IN  Append(f, PlefPiece(R(xs[n]), Eval(f[n - 1], R(xs[n])), R(ss[n])))

Plefs ==
    UNION {{MkPlef(xs, ss, y0, n) : xs \in Abscissae(n), ss \in Slopes(n), y0 \in 0..MaxY} :
             n \in 1..MaxPlefPieces}

\* candidate lines anchored at 0, as apparition_scale builds them
Lines ==
    {PlefPiece(Zero, R(y0), R(s)) : y0 \in 0..(MaxY + MaxX * MaxSlope), s \in 0..MaxSlope}

MaxChoices == {None} \cup {Some(k) : k \in 1..MaxTrunc}

treeVars == <<height, width, img, labels, nodes, edges, heap, parents, levels,
              merge_operations, hierarchy, cut_level, cut_labels, pc, panic>>

InitPlef ==
    /\ height = 0
    /\ width = 0
    /\ img = EmptyVec
    /\ labels = EmptyVec
    /\ TreeBlank
    /\ pc = "off"
    /\ PlefBlank
    /\ SeedBlank
    /\ plef_f \in Plefs
    /\ plef_pc = "ready"

\* f.sum(g, max_pieces) and g.sum(f, max_pieces)
SumStep ==
    /\ plef_pc = "ready"
    /\ \E g \in Plefs, m \in MaxChoices :
         /\ plef_g' = g
         /\ plef_max' = m
         /\ plef_sum' = PlefSum(plef_f, g, m)
         /\ plef_sum_rev' = PlefSum(g, plef_f, m)
    /\ plef_pc' = "summed"
    /\ UNCHANGED <<plef_f, plef_p, plef_f0, plef_ret, plef_ret_rev, plef_f1, plef_ret2>>
    /\ UNCHANGED treeVars
    /\ UNCHANGED seedVars

\* the two sums go through infimum(P), as in apparition_scale
SumInfimumStep ==
    /\ plef_pc = "summed"
    /\ \E p \in Lines :
         /\ plef_p' = p
         /\ plef_ret' = PlefInfimum(plef_sum, p).ret
         /\ plef_ret_rev' = PlefInfimum(plef_sum_rev, p).ret
    /\ plef_pc' = "scaled"
    /\ UNCHANGED <<plef_f, plef_g, plef_max, plef_f0, plef_sum, plef_sum_rev, plef_f1, plef_ret2>>
    /\ UNCHANGED treeVars
    /\ UNCHANGED seedVars

\* f.infimum(P): f is mutated in place, the abscissa is returned
InfimumStep ==
    /\ plef_pc = "ready"
    /\ \E p \in Lines :
         /\ plef_p' = p
         /\ plef_f0' = plef_f
         /\ plef_f' = PlefInfimum(plef_f, p).pieces
         /\ plef_ret' = PlefInfimum(plef_f, p).ret
    /\ plef_pc' = "inf"
    /\ UNCHANGED <<plef_g, plef_max, plef_sum, plef_sum_rev, plef_ret_rev, plef_f1, plef_ret2>>
    /\ UNCHANGED treeVars
    /\ UNCHANGED seedVars

\* a second f.infimum(P) with the same P: plef_f1 keeps the piece list the
\* first call left, plef_ret2 is the abscissa the second call returns
InfimumAgainStep ==
    /\ plef_pc = "inf"
    /\ plef_f1' = plef_f
    /\ plef_f' = PlefInfimum(plef_f, plef_p).pieces
    /\ plef_ret2' = PlefInfimum(plef_f, plef_p).ret
    /\ plef_pc' = "inf2"
    /\ UNCHANGED <<plef_g, plef_p, plef_max, plef_f0, plef_sum, plef_sum_rev, plef_ret,
                   plef_ret_rev>>
    /\ UNCHANGED treeVars
    /\ UNCHANGED seedVars

NextPlef ==
    \/ SumStep
    \/ SumInfimumStep
    \/ InfimumStep
    \/ InfimumAgainStep

SpecPlef == InitPlef /\ [][NextPlef]_vars

\* ------------------------------------------------------------ seed grid
\* slic_helpers::div_ceil
DivCeil(lhs, rhs) ==
    LET d == lhs \div rhs
        r == lhs % rhs
    IN  IF r > 0 /\ rhs > 0 THEN d + 1 ELSE d

\* the `while x_seeds * y_seeds > k` loop; the product exceeding k >= 0
\* keeps both counts above 0, so the u32 decrements cannot wrap
RECURSIVE ReduceSeeds(_, _, _)
ReduceSeeds(x_seeds, y_seeds, k) ==
    IF x_seeds * y_seeds > k THEN ReduceSeeds(x_seeds - 1, y_seeds - 1, k)
    ELSE <<x_seeds, y_seeds>>

\* f64::to_u32 on an exact value: truncation toward zero, None (<<>>) for a
\* value at or below -1 or not finite
ToU32(a) ==
    IF ~IsFinite(a) \/ Le(a, R(-1)) THEN None
    ELSE Some(IF a[1] < 0 THEN 0 ELSE a[1] \div a[2])

\* the numbers of grid columns and rows init_seeds settles on
SeedGrid(w, h, s, k) ==
    LET x0 == DivCeil(w, s)
        y0 == DivCeil(h, s)
        x1 == IF s * x0 > w THEN x0 - 1 ELSE x0
        y1 == IF s * y0 > h THEN y0 - 1 ELSE y0
        red == ReduceSeeds(x1, y1, k)
    IN  [x_seeds |-> IF red[1] = 0 THEN 1 ELSE red[1],
         y_seeds |-> IF red[2] = 0 THEN 1 ELSE red[2]]

\* the two nested loops of init_seeds, row by row; a failed to_u32 returns
\* Err.  The saturating u32 operations never saturate at these sizes.
RECURSIVE SeedLoop(_, _, _, _, _, _)
SeedLoop(w, h, s, grid, n, acc) ==
    IF n = grid.x_seeds * grid.y_seeds THEN [ok |-> TRUE, seeds |-> acc]
    ELSE LET ydx == n \div grid.x_seeds
             xdx == n % grid.x_seeds
             half_s == DivCeil(s, 2)
             x_correction == Div(Sub(R(w), Mul(R(grid.x_seeds), R(s))), R(grid.x_seeds))
             y_correction == Div(Sub(R(h), Mul(R(grid.y_seeds), R(s))), R(grid.y_seeds))
             y_correct == ToU32(Mul(R(ydx), y_correction))
             x_correct == ToU32(Mul(R(xdx), x_correction))
         IN  IF y_correct = None \/ x_correct = None THEN [ok |-> FALSE, seeds |-> acc]
             ELSE LET x == xdx * s + half_s + x_correct[1]
                      y == ydx * s + half_s + y_correct[1]
                      i == y * w + x
                  IN  SeedLoop(w, h, s, grid, n + 1,
                               IF x < w /\ y < h /\ i < h * w * NumChannels
                               THEN Append(acc, <<x, y>>) ELSE acc)

\* init_seeds: Ok with the seed positions pushed, or Err
InitSeeds(w, h, s, k) ==
    SeedLoop(w, h, s, SeedGrid(w, h, s, k), 0, <<>>)

InitSeed ==
    /\ height = 0
    /\ width = 0
    /\ img = EmptyVec
    /\ labels = EmptyVec
    /\ TreeBlank
    /\ pc = "off"
    /\ PlefBlank
    /\ plef_f = <<>>
    /\ plef_pc = "off"
    /\ seed_width \in 1..MaxSeedDim
    /\ seed_height \in 1..MaxSeedDim
    /\ seed_s \in 1..MaxSeedStep
    /\ seed_k \in 1..MaxSeedCount
    /\ seed_result = [ok |-> TRUE, seeds |-> <<>>]
    /\ seed_pc = "ready"

\* one call of init_seeds
InitSeedsStep ==
    /\ seed_pc = "ready"
    /\ seed_result' = InitSeeds(seed_width, seed_height, seed_s, seed_k)
    /\ seed_pc' = "done"
    /\ UNCHANGED <<seed_width, seed_height, seed_s, seed_k>>
    /\ UNCHANGED treeVars
    /\ UNCHANGED plefVars

NextSeed == InitSeedsStep

SpecSeed == InitSeed /\ [][NextSeed]_vars

\* ------------------------------------------------------------------ claims
NoPanic == panic = "none"

\* number of leaves of the tree (nodes of the input graph)
NumPoints == IF DOMAIN labels = {} THEN 0 ELSE SetMax({labels[p] : p \in DOMAIN labels}) + 1

Leaves == 0..(NumPoints - 1)

\* the input graph: edges between two leaves are the initial ones
InitialPairs ==
    {<<edges[k].source, edges[k].target>> :
        k \in {j \in DOMAIN edges : edges[j].source \in Leaves /\ edges[j].target \in Leaves}}

RECURSIVE Reach(_, _)
Reach(pairs, S) ==
    LET T == S \cup {e[2] : e \in {d \in pairs : d[1] \in S}}
                \cup {e[1] : e \in {d \in pairs : d[2] \in S}}
    IN  IF T = S THEN S ELSE Reach(pairs, T)

\* the connected component of every leaf
Components == LET pairs == InitialPairs IN [i \in Leaves |-> Reach(pairs, {i})]

RECURSIVE Climb(_, _, _)
Climb(prnts, i, n) == IF n = 0 THEN i ELSE Climb(prnts, prnts[i], n - 1)

RootOf(prnts, i) == Climb(prnts, i, VecLen(prnts))

Roots(prnts) == {i \in DOMAIN prnts : prnts[i] = i}

\* C1: after every completed merge, every non-root i has parents[i] > i, and
\* following parents from any node ends in a root.
C1_ParentsAppearLater ==
    /\ \A i \in DOMAIN parents :
         /\ parents[i] \in DOMAIN parents
         /\ parents[i] # i => parents[i] > i
    /\ \A i \in DOMAIN parents : RootOf(parents, i) \in Roots(parents)

C1_Witness ==
    /\ pc = "loop"
    /\ merge_operations >= 2
    /\ \E i \in DOMAIN parents : parents[i] # i /\ parents[parents[i]] # parents[i]

\* C2: a returned tree has N - c merges, parents and levels of length 2N - c,
\* one root per connected component of the input graph, and no active edge.
C2_MergeCount ==
    pc = "built" =>
        LET comp == Components
            c == Cardinality({comp[i] : i \in Leaves})
            root == [i \in Leaves |-> RootOf(hierarchy.parents, i)]
        IN  /\ merge_operations = NumPoints - c
            /\ VecLen(hierarchy.parents) = 2 * NumPoints - c
            /\ VecLen(hierarchy.levels) = 2 * NumPoints - c
            /\ Cardinality(Roots(hierarchy.parents)) = c
            /\ \A i, j \in Leaves : (root[i] = root[j]) <=> (j \in comp[i])
            /\ \A k \in DOMAIN edges : ~edges[k].active

C2_Witness ==
    /\ pc = "built"
    /\ Cardinality({Components[i] : i \in Leaves}) >= 2
    /\ merge_operations >= 2

\* C3: the levels of the merge nodes are non-decreasing in creation order,
\* so every merge node is at least as high as its two children.
C3_LevelsMonotone ==
    /\ \A i, j \in DOMAIN levels :
         (NumPoints <= i /\ i < j) => Le(levels[i], levels[j])
    /\ \A i \in DOMAIN parents : Le(levels[i], levels[parents[i]])

\* C4: cutting a built hierarchy at scale 0 returns the initial labels.
C4_CutAtZero ==
    (pc = "cut" /\ cut_level = Zero) => cut_labels = hierarchy.labels

C4_Witness ==
    /\ pc = "cut"
    /\ cut_level = Zero
    /\ merge_operations >= 2

\* C5: cutting at +infinity gives two pixels the same label exactly when
\* their superpixels are in the same component, the label being the root.
C5_CutAtInfinity ==
    (pc = "cut" /\ cut_level = Infinity) =>
        LET comp == Components
        IN  \A p, q \in DOMAIN labels :
                /\ (cut_labels[p] = cut_labels[q]) <=> (labels[q] \in comp[labels[p]])
                /\ cut_labels[p] = RootOf(hierarchy.parents, labels[p])

C5_Witness ==
    /\ pc = "cut"
    /\ cut_level = Infinity
    /\ merge_operations >= 2
    /\ ~C3_LevelsMonotone

\* i is a descendant of (or is) node m
RECURSIVE Under(_, _, _)
Under(prnts, i, m) ==
    IF i = m THEN TRUE ELSE IF prnts[i] = i THEN FALSE ELSE Under(prnts, prnts[i], m)

\* the topmost ancestor reached through merges born below level
RECURSIVE TopBelow(_, _, _, _)
TopBelow(prnts, lvls, level, i) ==
    IF prnts[i] # i /\ Lt(lvls[prnts[i]], level)
    THEN TopBelow(prnts, lvls, level, prnts[i])
    ELSE i

\* C6: at a scale lambda > 0 the cut collapses exactly the merges whose level
\* is below lambda: a leaf goes to its topmost ancestor born below lambda, and
\* two leaves share a label iff a merge node born below lambda is above both.
C6_CutCollapsesBelow ==
    (pc = "cut" /\ Gt(cut_level, Zero)) =>
        \A p, q \in DOMAIN labels :
            /\ cut_labels[p] = TopBelow(hierarchy.parents, hierarchy.levels, cut_level, labels[p])
            /\ (cut_labels[p] = cut_labels[q]) <=>
                 \/ labels[p] = labels[q]
                 \/ \E m \in DOMAIN hierarchy.parents :
                      /\ m >= NumPoints
                      /\ Lt(hierarchy.levels[m], cut_level)
                      /\ Under(hierarchy.parents, labels[p], m)
                      /\ Under(hierarchy.parents, labels[q], m)

Breaks(f) == {f[k].start_x : k \in 1..Len(f)}

\* a PLEF is well formed: non-empty, anchored at 0, strictly increasing
\* abscissae, non-increasing slopes, continuous at the breakpoints
WellFormed(f) ==
    /\ Len(f) >= 1
    /\ f[1].start_x = Zero
    /\ \A i \in 1..(Len(f) - 1) :
         /\ Lt(f[i].start_x, f[i + 1].start_x)
         /\ Ge(f[i].slope, f[i + 1].slope)
         /\ f[i + 1].start_y = Eval(f[i], f[i + 1].start_x)

\* C7: every optimal_energy stored in a node is a well-formed PLEF.
C7_PlefWellFormed ==
    \A i \in DOMAIN nodes : WellFormed(nodes[i].optimal_energy)

\* two merged siblings whose energies have more breakpoints than max_pieces
C7_Witness ==
    \E a, b \in DOMAIN parents :
        /\ a < b
        /\ parents[a] = parents[b]
        /\ parents[a] # a
        /\ Cardinality(Breaks(nodes[a].optimal_energy) \cup Breaks(nodes[b].optimal_energy))
             > DefaultMaxPieces


\* ---- the PLEF as a function on [0, +inf)
RMin(a, b) == IF Lt(b, a) THEN b ELSE a

SetMin(S) == CHOOSE m \in S : \A x \in S : Le(m, x)

\* the piece in force at x: the last one starting at or before x
PieceAt(f, x) ==
    LET ks == {k \in 1..Len(f) : Le(f[k].start_x, x)} \cup {1}
    IN  f[CHOOSE k \in ks : \A j \in ks : j <= k]

PlefAt(f, x) == Eval(PieceAt(f, x), x)

LastSlope(f) == f[Len(f)].slope

StrictlyConcave(f) == \A i \in 1..(Len(f) - 1) : Gt(f[i].slope, f[i + 1].slope)

\* where the line p (anchored at 0) meets the line carrying piece
CrossAt(p, piece) ==
    Div(Sub(Sub(piece.start_y, Mul(piece.slope, piece.start_x)), p.start_y),
        Sub(p.slope, piece.slope))

Crossings(f, p) ==
    {c \in {CrossAt(p, f[k]) : k \in {j \in 1..Len(f) : f[j].slope # p.slope}} :
        IsFinite(c) /\ Ge(c, Zero)}

\* p is at or below f on all of [c, +inf), given slope(p) <= last slope of f
BelowFrom(f, p, c) ==
    /\ Le(Eval(p, c), PlefAt(f, c))
    /\ \A b \in Breaks(f) : Ge(b, c) => Le(Eval(p, b), PlefAt(f, b))

\* the smallest abscissa from which p stays at or below f
FirstBelow(f, p) ==
    LET good == {c \in {Zero} \cup Breaks(f) \cup Crossings(f, p) : BelowFrom(f, p, c)}
    IN  IF good = {} THEN Infinity ELSE SetMin(good)

\* abscissae that decide the equality of two piecewise-affine functions
Samples(S) ==
    LET fin == {x \in S : IsFinite(x)} \cup {Zero}
        far == CHOOSE m \in fin : \A x \in fin : Le(x, m)
    IN  fin \cup {Add(far, R(1))}

InfimumIsMin(f0, p, f1, ret) ==
    /\ ret = FirstBelow(f0, p)
    /\ Len(f1) >= 1
    /\ \A x \in Samples(Breaks(f0) \cup Breaks(f1) \cup Crossings(f0, p)) :
         PlefAt(f1, x) = RMin(PlefAt(f0, x), Eval(p, x))
    /\ (p.slope = LastSlope(f0) /\ Gt(Eval(p, f0[Len(f0)].start_x), f0[Len(f0)].start_y))
         => (f1 = f0 /\ ret = Infinity)

InfimumPre(f0, p) ==
    /\ WellFormed(f0)
    /\ p.start_x = Zero
    /\ Ge(p.start_y, f0[1].start_y)
    /\ Le(p.slope, LastSlope(f0))

\* the two infimum scenarios of the specification
InfimumScenarios ==
    /\ PlefInfimum(<<PlefPiece(R(0), R(0), R(5)), PlefPiece(R(2), R(10), R(1))>>,
                   PlefPiece(R(0), R(4), R(0)))
         = [pieces |-> <<PlefPiece(R(0), R(0), R(5)), PlefPiece(<<4, 5>>, R(4), R(0))>>,
            ret |-> <<4, 5>>]
    /\ PlefInfimum(<<PlefPiece(R(0), R(0), R(5))>>, PlefPiece(R(0), R(100), R(5)))
         = [pieces |-> <<PlefPiece(R(0), R(0), R(5))>>, ret |-> Infinity]

\* C8 as stated: for a well-formed f (slopes non-increasing) and a line P
\* anchored at 0 with P(0) >= f(0) and slope(P) <= last slope of f,
\* infimum(P) leaves min(f, P) and returns the first abscissa from which
\* P <= f; parallel and strictly above: unchanged, +infinity.
C8_InfimumIsMin ==
    (plef_pc = "inf" /\ InfimumPre(plef_f0, plef_p))
        => InfimumIsMin(plef_f0, plef_p, plef_f, plef_ret)

\* C8 amended: the same, for f whose slopes are strictly decreasing.
C8_InfimumIsMinStrict ==
    /\ InfimumScenarios
    /\ (plef_pc = "inf" /\ InfimumPre(plef_f0, plef_p) /\ StrictlyConcave(plef_f0))
         => InfimumIsMin(plef_f0, plef_p, plef_f, plef_ret)

C8_Witness ==
    /\ plef_pc = "inf"
    /\ InfimumPre(plef_f0, plef_p)
    /\ StrictlyConcave(plef_f0)
    /\ Len(plef_f0) = 3
    /\ Len(plef_f) = 2
    /\ Gt(plef_ret, Zero)

MaxP(m) == IF m = None THEN DefaultMaxPieces ELSE m[1]

\* C9: when the merged breakpoints fit in max_pieces, f.sum(g) has the union
\* of the breakpoints, on each piece the sum of the slopes in force, and at
\* every x the value f(x) + g(x).
C9_SumIsPointwise ==
    /\ PlefSum(<<PlefPiece(R(0), R(10), R(3))>>, <<PlefPiece(R(0), R(5), R(1))>>, None)
         = <<PlefPiece(R(0), R(15), R(4))>>
    /\ (/\ plef_pc = "summed"
        /\ WellFormed(plef_f)
        /\ WellFormed(plef_g)
        /\ Cardinality(Breaks(plef_f) \cup Breaks(plef_g)) <= MaxP(plef_max))
         => LET U == Breaks(plef_f) \cup Breaks(plef_g)
            IN  /\ Len(plef_sum) = Cardinality(U)
                /\ Breaks(plef_sum) = U
                /\ WellFormed(plef_sum)
                /\ \A k \in 1..Len(plef_sum) :
                     plef_sum[k].slope = Add(PieceAt(plef_f, plef_sum[k].start_x).slope,
                                             PieceAt(plef_g, plef_sum[k].start_x).slope)
                /\ \A x \in Samples(U) :
                     PlefAt(plef_sum, x) = Add(PlefAt(plef_f, x), PlefAt(plef_g, x))

C9_Witness ==
    /\ plef_pc = "summed"
    /\ plef_max # None
    /\ Cardinality(Breaks(plef_f) \cup Breaks(plef_g)) = MaxP(plef_max)
    /\ Len(plef_f) = 2
    /\ Len(plef_g) = 2
    /\ Breaks(plef_f) # Breaks(plef_g)

\* C10: f.sum(g) and g.sum(f) are the same piece sequence, truncated or not,
\* and so infimum(P) returns the same value on both.
C10_SumCommutes ==
    /\ plef_pc \in {"summed", "scaled"} => plef_sum = plef_sum_rev
    /\ plef_pc = "scaled" => plef_ret = plef_ret_rev

C10_Witness ==
    /\ plef_pc = "scaled"
    /\ Cardinality(Breaks(plef_f) \cup Breaks(plef_g)) > MaxP(plef_max)
    /\ Breaks(plef_f) # Breaks(plef_g)
    /\ Len(plef_f) >= 2
    /\ Len(plef_g) >= 2

\* piece lists equal as f64 compares them (a NaN field equals nothing)
SamePieces(f, g) ==
    /\ Len(f) = Len(g)
    /\ \A i \in 1..Len(f) :
         /\ Eq(f[i].start_x, g[i].start_x)
         /\ Eq(f[i].start_y, g[i].start_y)
         /\ Eq(f[i].slope, g[i].slope)

Pixels == 0..(height * width - 1)

Region(l) == {p \in Pixels : labels[p] = l}

\* the 4-adjacent pixel pairs <<p, q>>, q to the right of or below p
AdjacentPairs ==
    {pq \in Pixels \X Pixels :
        \/ pq[2] = pq[1] + 1 /\ pq[1] % width # width - 1
        \/ pq[2] = pq[1] + width}

\* the adjacent pairs whose two pixels carry the labels u and v
PairsBetween(u, v) ==
    {pq \in AdjacentPairs :
        \/ labels[pq[1]] = u /\ labels[pq[2]] = v
        \/ labels[pq[1]] = v /\ labels[pq[2]] = u}

\* the unit border segments of region l: a side of one of its pixels beyond
\* which lies the image frame or a pixel of another label
Sides == {<<0, 1>>, <<0, -1>>, <<1, 0>>, <<-1, 0>>}

BorderSegments(l) ==
    {ps \in Region(l) \X Sides :
        LET y == (ps[1] \div width) + ps[2][1]
            x == (ps[1] % width) + ps[2][2]
        IN  \/ y < 0 \/ y >= height \/ x < 0 \/ x >= width
            \/ labels[y * width + x] # l}

RECURSIVE SumOver(_, _)
SumOver(f, S) ==
    IF S = {} THEN 0
    ELSE LET p == CHOOSE q \in S : TRUE IN f[p] + SumOver(f, S \ {p})

\* C12: graph_from_labels yields max label + 1 nodes; area, values and
\* values_sq of node l are the count and the per-channel sums over the pixels
\* labelled l (areas sum to W*H); there is exactly one edge (u,v) when some
\* 4-adjacent pixel pair carries labels u and v and none otherwise, its length
\* is the number of such pairs; perimeter[l] is the number of unit border
\* segments of region l, frame sides included.
C12_GraphMatchesLabels ==
    pc = "graph" =>
        /\ DOMAIN nodes = 0..SetMax({labels[p] : p \in Pixels})
        /\ SumOver([l \in DOMAIN nodes |-> nodes[l].area], DOMAIN nodes) = width * height
        /\ \A l \in DOMAIN nodes :
             /\ nodes[l].area = Cardinality(Region(l))
             /\ \A c \in Channels :
                  /\ nodes[l].values[c] = SumOver([p \in Pixels |-> img[p][c]], Region(l))
                  /\ nodes[l].values_sq[c]
                       = SumOver([p \in Pixels |-> img[p][c] * img[p][c]], Region(l))
             /\ nodes[l].perimeter = Cardinality(BorderSegments(l))
        /\ \A u, v \in DOMAIN nodes :
             LET ks == {k \in DOMAIN edges : Connects(edges[k], u, v)}
             IN  IF u # v /\ PairsBetween(u, v) # {}
                 THEN /\ Cardinality(ks) = 1
                      /\ \A k \in ks : /\ edges[k].length = Cardinality(PairsBetween(u, v))
                                        /\ edges[k].length >= 1
                                        /\ edges[k].active
                 ELSE ks = {}

\* a 2x2 image cut in two regions of two pixels: an edge of length 2, and
\* corner pixels that bring two frame sides each to a perimeter of 6
C12_Witness ==
    /\ pc = "graph"
    /\ height = 2
    /\ width = 2
    /\ VecLen(nodes) = 2
    /\ \A l \in DOMAIN nodes : nodes[l].area = 2 /\ nodes[l].perimeter = 6
    /\ \E k \in DOMAIN edges : edges[k].length = 2

\* the merge nodes built so far and the two children of merge node m
MergeNodes == {m \in DOMAIN parents : m >= NumPoints}

Children(m) == {i \in DOMAIN parents : parents[i] = m /\ i # m}

\* C13: every merge node m of children a and b fused over an edge of length
\* l has area, values and values_sq equal to the sums over a and b and
\* perimeter_m = perimeter_a + perimeter_b - 2*l with
\* perimeter_a + perimeter_b >= 2*l; the same inequality holds for the two
\* ends of every active edge, and no u32 subtraction has overflowed.
C13_MergedNodeSums ==
    /\ panic # "attempt to subtract with overflow"
    /\ \A m \in MergeNodes :
         /\ Cardinality(Children(m)) = 2
         /\ \A a, b \in Children(m) :
              a < b =>
                /\ nodes[m].area = nodes[a].area + nodes[b].area
                /\ \A c \in Channels :
                     /\ nodes[m].values[c] = nodes[a].values[c] + nodes[b].values[c]
                     /\ nodes[m].values_sq[c] = nodes[a].values_sq[c] + nodes[b].values_sq[c]
                /\ Cardinality({k \in DOMAIN edges : Connects(edges[k], a, b)}) = 1
                /\ \A k \in DOMAIN edges :
                     Connects(edges[k], a, b) =>
                       /\ nodes[a].perimeter + nodes[b].perimeter >= 2 * edges[k].length
                       /\ nodes[m].perimeter
                            = nodes[a].perimeter + nodes[b].perimeter - 2 * edges[k].length
    /\ \A k \in DOMAIN edges :
         edges[k].active =>
           nodes[edges[k].source].perimeter + nodes[edges[k].target].perimeter
             >= 2 * edges[k].length

\* a merge node whose two children touched along two pixel sides, next to a
\* neighbour it is still linked to by a rewired edge
C13_Witness ==
    /\ pc = "loop"
    /\ \E m \in MergeNodes :
         /\ \E a, b \in Children(m) :
              a < b /\ \E k \in DOMAIN edges : Connects(edges[k], a, b) /\ edges[k].length = 2
         /\ \E k \in DOMAIN edges : edges[k].active /\ edges[k].source = m

ActiveEdges(es) == {k \in DOMAIN es : es[k].active}

\* a loop iteration that merged / that dropped a stale entry
MergeIteration == pc = "loop" /\ pc' = "loop" /\ merge_operations' = merge_operations + 1

StaleIteration == pc = "loop" /\ pc' = "loop" /\ merge_operations' = merge_operations

MergeShrinks ==
    MergeIteration =>
        (/\ Cardinality(ActiveEdges(edges')) < Cardinality(ActiveEdges(edges))
         /\ Cardinality(heap') < Cardinality(heap) + VecLen(edges') - VecLen(edges) + 1
         /\ \A k \in DOMAIN edges : (edges'[k].active => edges[k].active))

StaleShrinks ==
    StaleIteration =>
        (/\ heap' \subseteq heap
         /\ Cardinality(heap') = Cardinality(heap) - 1
         /\ edges' = edges)

\* C14: an iteration that merges strictly decreases the number of active
\* edges and adds at most one edge per neighbour; an iteration that pops a
\* stale entry removes one heap entry and pushes nothing; from any point of
\* the loop the heap eventually empties and the tree is returned.
C14_LoopTerminates ==
    /\ [][MergeShrinks /\ StaleShrinks]_vars
    /\ (pc = "loop") ~> (pc = "built" /\ heap = {})

\* mid-loop, after a merge that had to rewire: the heap holds a stale entry
\* beside a live one
C14_Witness ==
    /\ pc = "loop"
    /\ merge_operations >= 1
    /\ \E e \in heap : ~edges[e.index].active
    /\ \E e \in heap : edges[e.index].active /\ edges[e.index].source >= NumPoints

\* the heap entries that refer to edge k
EntriesOf(k) == {e \in heap : e.index = k}

HeapConsistent ==
    /\ panic # "Heap consistency assert"
    /\ \A e \in heap : e.index \in DOMAIN edges /\ Eq(e.weight, edges[e.index].weight)
    /\ pc = "loop" =>
         \A k \in DOMAIN edges : edges[k].active => Cardinality(EntriesOf(k)) = 1

WeightsFrozen ==
    pc = "loop" => \A k \in DOMAIN edges : edges'[k].weight = edges[k].weight

\* C15: the heap-consistency assertion never fails: every heap entry carries
\* the current weight of its edge, every active edge has exactly one heap
\* entry while the loop runs, and no step of the loop changes the weight of
\* an existing edge.
C15_HeapConsistent ==
    /\ []HeapConsistent
    /\ [][WeightsFrozen]_vars

\* the heap holds the entry of a rewired edge of non-zero weight beside the
\* entry of an edge a merge has deactivated
C15_Witness ==
    /\ pc = "loop"
    /\ \E e \in heap : /\ edges[e.index].active
                        /\ edges[e.index].source >= NumPoints
                        /\ Gt(e.weight, Zero)
    /\ \E e \in heap : ~edges[e.index].active /\ Gt(e.weight, Zero)

\* the active edges of es between node n and node a or node b
ActiveTo(es, a, b, n) ==
    {k \in DOMAIN es : es[k].active /\ (Connects(es[k], a, n) \/ Connects(es[k], b, n))}

\* a merge step of a and b into m rewires every neighbour n: one active
\* edge (m, n) of the summed length if n had active edges to a or b, none
\* otherwise; nothing incident to a or b stays active
RewiredRight ==
    MergeIteration =>
        LET m == VecLen(nodes)
            kids == {i \in DOMAIN parents : parents'[i] = m}
        IN  /\ Cardinality(kids) = 2
            /\ \A a, b \in kids :
                 a < b =>
                   /\ \A k \in DOMAIN edges' :
                        (edges'[k].source \in {a, b} \/ edges'[k].target \in {a, b})
                            => ~edges'[k].active
                   /\ \A n \in DOMAIN nodes \ {a, b} :
                        LET old == ActiveTo(edges, a, b, n)
                            new == {k \in DOMAIN edges' :
                                      edges'[k].active /\ Connects(edges'[k], m, n)}
                        IN  IF old = {} THEN new = {}
                            ELSE /\ Cardinality(new) = 1
                                 /\ \A k \in new :
                                      edges'[k].length
                                        = SumOver([j \in DOMAIN edges |-> edges[j].length], old)

ActiveEdgesJoinRoots ==
    /\ panic # "Active edge assert"
    /\ pc \in {"loop", "built", "cut"} =>
         /\ \A k \in DOMAIN edges :
              edges[k].active =>
                /\ edges[k].source # edges[k].target
                /\ parents[edges[k].source] = edges[k].source
                /\ parents[edges[k].target] = edges[k].target
         /\ \A k, j \in DOMAIN edges :
              (edges[k].active /\ edges[j].active /\ k # j)
                 => ~Connects(edges[k], edges[j].source, edges[j].target)

\* C16: after a merge of a and b into m every former neighbour n of a or b
\* has exactly one active edge (m, n) whose length is the sum of the old
\* lengths, and every edge incident to a or b is inactive; in every state
\* an active edge joins two distinct roots, no pair of nodes has two active
\* edges, and the 'Active edge assert' has not fired.
C16_RewiringKeepsGraph ==
    /\ []ActiveEdgesJoinRoots
    /\ [][RewiredRight]_vars

\* a neighbour that touched both merged nodes: its two old edges are
\* inactive and one active edge of their summed length links it to the
\* merge node
C16_Witness ==
    /\ pc = "loop"
    /\ \E m \in MergeNodes : \E n \in DOMAIN nodes : \E k, i, j \in DOMAIN edges :
         /\ edges[k].active /\ Connects(edges[k], m, n)
         /\ i # j
         /\ ~edges[i].active /\ edges[i].target = n /\ edges[i].source \in Children(m)
         /\ ~edges[j].active /\ edges[j].target = n /\ edges[j].source \in Children(m)
         /\ edges[i].source # edges[j].source
         /\ edges[k].length = edges[i].length + edges[j].length

\* C17: init_seeds returns Ok with between 1 and k seeds for every image of
\* at least one pixel and every s >= 1, k >= 1, and exactly one seed for a
\* 1x1 image with k = 1 and s = 1.
C17_SeedCount ==
    seed_pc = "done" =>
        /\ seed_result.ok
        /\ Len(seed_result.seeds) >= 1
        /\ Len(seed_result.seeds) <= seed_k
        /\ (seed_width = 1 /\ seed_height = 1 /\ seed_k = 1 /\ seed_s = 1)
              => Len(seed_result.seeds) = 1

\* the summed PLEF and the candidate line met when edge k was weighed
SummedEnergy(k) ==
    PlefSum(nodes[edges[k].source].optimal_energy, nodes[edges[k].target].optimal_energy, None)

CandidateLine(k) ==
    LET source == nodes[edges[k].source]
        target == nodes[edges[k].target]
    IN  PlefPiece(Zero,
                  DataFidelity([c \in Channels |-> source.values[c] + target.values[c]],
                               [c \in Channels |-> source.values_sq[c] + target.values_sq[c]],
                               source.area + target.area),
                  R(source.perimeter + target.perimeter - 2 * edges[k].length))

FiniteNonNegative(a) == IsFinite(a) /\ Ge(a, Zero)

\* C18: in exact arithmetic every edge weight, every heap weight and every
\* level is a finite number >= 0; each node's last piece has the node's
\* perimeter as slope; for every edge the candidate line's slope is strictly
\* below the slope of every piece of the summed PLEF (so infimum neither
\* takes the parallel branch nor divides by zero) and the abscissa it
\* returns is the edge's weight; no heap comparison meets a NaN.
C18_WeightsFiniteNonNegative ==
    /\ panic = "none"
    /\ \A n \in DOMAIN nodes :
         /\ Len(nodes[n].optimal_energy) >= 1
         /\ Eq(nodes[n].optimal_energy[Len(nodes[n].optimal_energy)].slope,
               R(nodes[n].perimeter))
    /\ \A k \in DOMAIN edges :
         /\ edges[k].length >= 1
         /\ FiniteNonNegative(edges[k].weight)
         /\ \A i \in DOMAIN SummedEnergy(k) :
              /\ Lt(CandidateLine(k).slope, SummedEnergy(k)[i].slope)
              /\ FiniteNonNegative(Intersect(CandidateLine(k), SummedEnergy(k)[i]))
         /\ Eq(edges[k].weight, PlefInfimum(SummedEnergy(k), CandidateLine(k)).ret)
    /\ \A e \in heap : FiniteNonNegative(e.weight)
    /\ \A i \in DOMAIN levels : FiniteNonNegative(levels[i])
    /\ pc \in {"built", "cut"} => \A i \in DOMAIN hierarchy.levels : FiniteNonNegative(hierarchy.levels[i])

\* a finished tree of two merges whose rewired edge was weighed above zero
C18_Witness ==
    /\ pc = "built"
    /\ merge_operations = 2
    /\ \E k \in DOMAIN edges :
         /\ edges[k].source >= NumPoints \/ edges[k].target >= NumPoints
         /\ Gt(edges[k].weight, Zero)
         /\ Len(SummedEnergy(k)) >= 2
    /\ \E i \in DOMAIN levels : Gt(levels[i], Zero)

====
